---- MODULE Spec2Model ----
\* A model of phi-lib: Rule (rule.rs) and Tape (tape.rs).
\* A Tape is the pair of vectors (positive_values, negative_values) of the
\* source; vectors are TLA+ sequences, so Rust index k is TLA+ index k + 1.
\* Digits are small naturals: the u32 width of Value is not reached.
EXTENDS Integers, Sequences, FiniteSets, TLC

VARIABLES input, rule, tape, other, pos, result, scan, args

vars == <<input, rule, tape, other, pos, result, scan, args>>

\* ---------------------------------------------------------------- bounds
MaxDigit == 2
MaxInputLen == 4
MaxRuleLen == 2
MaxPosLen == 2
MaxNegLen == 1

Digits == 0..MaxDigit

RECURSIVE SeqsUpTo(_, _)
SeqsUpTo(S, n) ==
    IF n = 0 THEN {<<>>}
    ELSE LET shorter == SeqsUpTo(S, n - 1)
         IN shorter \cup {Append(s, d) : s \in {t \in shorter : Len(t) = n - 1}, d \in S}

RuleInputs == SeqsUpTo(Digits, MaxInputLen)

\* the rules the tape operations run under are built from zero-free inputs
TapeRuleInputs == SeqsUpTo(1..MaxDigit, MaxRuleLen)

\* ------------------------------------------------------------------ Rule
None == [some |-> FALSE, values |-> <<>>]

Some(vs) == [some |-> TRUE, values |-> vs]

\* values.iter().tuple_windows().any(|(a, b)| a < b)
any_increase(values) ==
    \E k \in 1..(Len(values) - 1) : values[k] < values[k + 1]

\* values.iter().copied().take_while(|&v| v != 0).collect()
RECURSIVE take_while_nonzero(_)
take_while_nonzero(values) ==
    IF values = <<>> \/ Head(values) = 0 THEN <<>>
    ELSE <<Head(values)>> \o take_while_nonzero(Tail(values))

\* from_array without the test for an increasing pair
from_array_unordered(values) ==
    LET res == take_while_nonzero(values)
    IN IF res = <<>> THEN None ELSE Some(res)

\* Rule::from_array. The cached base is the root of the characteristic
\* polynomial of the stored digits; it is kept symbolic (see value).
from_array(values) ==
    IF any_increase(values) THEN None
    ELSE LET res == take_while_nonzero(values)
         IN IF res = <<>> THEN None ELSE Some(res)

first(r) == r[1]

len(r) == Len(r)

\* Rule::get: TRUE when get returns Some, and the value it then holds.
get_is_some(r, index) == index >= 0 /\ index < Len(r)

get(r, index) == r[index + 1]

\* ------------------------------------------------------------------ Tape
zero == [positive_values |-> <<>>, negative_values |-> <<>>]

\* from_arrays keeping the positives in the order given
from_arrays_in_order(positives, negatives) ==
    [positive_values |-> positives, negative_values |-> negatives]

\* Tape::from_arrays: positives.iter().rev(), negatives as given
from_arrays(positives, negatives) ==
    [positive_values |-> [k \in 1..Len(positives) |-> positives[Len(positives) + 1 - k]],
     negative_values |-> negatives]

range(t) == <<0 - Len(t.negative_values), Len(t.positive_values)>>

internal_index(index) ==
    IF index >= 0 THEN <<TRUE, index>> ELSE <<FALSE, (0 - index) - 1>>

Reverse(s) == [k \in 1..Len(s) |-> s[Len(s) + 1 - k]]

\* Tape::iter: most significant digit first.
iter(t) == Reverse(t.positive_values) \o t.negative_values

\* Tape::index_iter: (min..max).rev()
index_iter(t) ==
    LET mn == range(t)[1]
        mx == range(t)[2]
    IN [k \in 1..(mx - mn) |-> mx - k]

\* impl Index<isize> for Tape
index(t, i) ==
    LET ii == internal_index(i)
        array == IF ii[1] THEN t.positive_values ELSE t.negative_values
    IN IF ii[2] < Len(array) THEN array[ii[2] + 1] ELSE 0

\* Vec::resize(n, 0), only ever called to grow
resize(array, n) == [k \in 1..n |-> IF k <= Len(array) THEN array[k] ELSE 0]

\* index_mut that pushes v at the end of the vector instead of growing to index
index_mut_push(t, i, v) ==
    LET ii == internal_index(i)
        array == IF ii[1] THEN t.positive_values ELSE t.negative_values
        stored == IF Len(array) <= ii[2] THEN Append(array, v)
                  ELSE [array EXCEPT ![ii[2] + 1] = v]
    IN IF ii[1] THEN [t EXCEPT !.positive_values = stored]
       ELSE [t EXCEPT !.negative_values = stored]

\* impl IndexMut<isize> for Tape, followed by the store of v
index_mut(t, i, v) ==
    LET ii == internal_index(i)
        array == IF ii[1] THEN t.positive_values ELSE t.negative_values
        grown == IF Len(array) <= ii[2] THEN resize(array, ii[2] + 1) ELSE array
        stored == [grown EXCEPT ![ii[2] + 1] = v]
    IN IF ii[1] THEN [t EXCEPT !.positive_values = stored]
       ELSE [t EXCEPT !.negative_values = stored]

Tapes ==
    {[positive_values |-> p, negative_values |-> n] :
        p \in SeqsUpTo(Digits, MaxPosLen), n \in SeqsUpTo(Digits, MaxNegLen)}

\* Tape::is_valid
is_valid(t, r) ==
    LET max_allowed == first(r)
    IN \A k \in 1..Len(iter(t)) : iter(t)[k] <= max_allowed

\* Err with rule_index counted from one
Err_one_based(t, ai, ri, rv, tv) == [status |-> "err", tape |-> t,
          application_index |-> ai, rule_index |-> ri + 1, rule_value |-> rv, tape_value |-> tv]

\* The result of apply: Ok(tape) or Err(ApplyRuleError).
Ok(t) == [status |-> "ok", tape |-> t,
          application_index |-> 0, rule_index |-> 0, rule_value |-> 0, tape_value |-> 0]

Err(t, ai, ri, rv, tv) == [status |-> "err", tape |-> t,
          application_index |-> ai, rule_index |-> ri, rule_value |-> rv, tape_value |-> tv]

Panic(t) == [status |-> "panic", tape |-> t,
          application_index |-> 0, rule_index |-> 0, rule_value |-> 0, tape_value |-> 0]

\* apply_loop with the rule laid one position too high: rule[i] at index - i
RECURSIVE apply_loop_shifted(_, _, _, _)
apply_loop_shifted(self, r, i, rule_index) ==
    IF rule_index >= len(r) THEN Ok(self)
    ELSE LET rule_value == get(r, rule_index)
             tape_index == i - rule_index
         IN IF index(self, tape_index) < rule_value
            THEN Err(self, i, rule_index, rule_value, index(self, tape_index))
            ELSE apply_loop_shifted(index_mut(self, tape_index, index(self, tape_index) - rule_value),
                                    r, i, rule_index + 1)

\* apply_loop failing also when the digit equals the rule value
RECURSIVE apply_loop_strict(_, _, _, _)
apply_loop_strict(self, r, i, rule_index) ==
    IF rule_index >= len(r) THEN Ok(self)
    ELSE LET rule_value == get(r, rule_index)
             tape_index == i - (rule_index + 1)
         IN IF index(self, tape_index) <= rule_value
            THEN Err(self, i, rule_index, rule_value, index(self, tape_index))
            ELSE apply_loop_strict(index_mut(self, tape_index, index(self, tape_index) - rule_value),
                                   r, i, rule_index + 1)

\* the for loop of apply_in_place, from rule_index on
RECURSIVE apply_loop(_, _, _, _)
apply_loop(self, r, i, rule_index) ==
    IF rule_index >= len(r) THEN Ok(self)
    ELSE LET rule_value == get(r, rule_index)
             tape_index == i - (rule_index + 1)
         IN IF index(self, tape_index) < rule_value
            THEN Err(self, i, rule_index, rule_value, index(self, tape_index))
            ELSE apply_loop(index_mut(self, tape_index, index(self, tape_index) - rule_value),
                            r, i, rule_index + 1)

\* apply_in_place without the increment at index
apply_in_place_no_increment(self, r, i) ==
    IF ~(len(r) > 0) THEN Panic(self)
    ELSE apply_loop(self, r, i, 0)

\* Tape::apply_in_place: assert!(rule_len > 0), self[index] += 1, then the loop
apply_in_place(self, r, i) ==
    IF ~(len(r) > 0) THEN Panic(self)
    ELSE apply_loop(index_mut(self, i, index(self, i) + 1), r, i, 0)

\* Tape::apply: apply_in_place on a clone
apply(self, r, i) == apply_in_place(self, r, i)

\* is_standard_loop that answers true when the window runs past the rule
RECURSIVE is_standard_loop_past_rule(_, _, _, _)
is_standard_loop_past_rule(t, r, cur, k) ==
    IF k > Len(index_iter(t))
    THEN LET mn == range(t)[1]
         IN IF cur - mn = len(r) THEN "false"
            ELSE IF ~(cur - mn < len(r)) THEN "panic"
            ELSE "true"
    ELSE LET i == index_iter(t)[k]
             v == iter(t)[k]
             rule_index == cur - i - 1
         IN IF rule_index < 0 THEN "panic"
            ELSE IF get_is_some(r, rule_index)
            THEN IF v < get(r, rule_index)
                 THEN is_standard_loop_past_rule(t, r, i, k + 1)
                 ELSE is_standard_loop_past_rule(t, r, cur, k + 1)
            ELSE "true"

\* is_standard_loop resetting the window also on a digit equal to the rule value
RECURSIVE is_standard_loop_le(_, _, _, _)
is_standard_loop_le(t, r, cur, k) ==
    IF k > Len(index_iter(t))
    THEN LET mn == range(t)[1]
         IN IF cur - mn = len(r) THEN "false"
            ELSE IF ~(cur - mn < len(r)) THEN "panic"
            ELSE "true"
    ELSE LET i == index_iter(t)[k]
             v == iter(t)[k]
             rule_index == cur - i - 1
         IN IF rule_index < 0 THEN "panic"
            ELSE IF get_is_some(r, rule_index)
            THEN IF v <= get(r, rule_index)
                 THEN is_standard_loop_le(t, r, i, k + 1)
                 ELSE is_standard_loop_le(t, r, cur, k + 1)
            ELSE "false"

\* the for loop of is_standard over index_iter().zip(iter()), from the k-th item on
RECURSIVE is_standard_loop(_, _, _, _)
is_standard_loop(t, r, cur, k) ==
    IF k > Len(index_iter(t))
    THEN LET mn == range(t)[1]
         IN IF cur - mn = len(r) THEN "false"
            ELSE IF ~(cur - mn < len(r)) THEN "panic"
            ELSE "true"
    ELSE LET i == index_iter(t)[k]
             v == iter(t)[k]
             rule_index == cur - i - 1
         IN IF rule_index < 0 THEN "panic"
            ELSE IF get_is_some(r, rule_index)
            THEN IF v < get(r, rule_index)
                 THEN is_standard_loop(t, r, i, k + 1)
                 ELSE is_standard_loop(t, r, cur, k + 1)
            ELSE "false"

\* Tape::is_standard, as "true", "false" or "panic" (a failed assert or unwrap)
is_standard_outcome(t, r) ==
    IF ~is_valid(t, r) THEN "false"
    ELSE IF ~(len(r) > 0) THEN "panic"
    ELSE is_standard_loop(t, r, range(t)[2], 1)

is_standard(t, r) == is_standard_outcome(t, r) = "true"

\* impl PartialEq<Tape> for Tape
all_zero_from(array, from) == \A k \in (from + 1)..Len(array) : array[k] = 0

Min(a, b) == IF a <= b THEN a ELSE b

\* side_eq that forgets the tail of the other side
side_eq_prefix(a, b) ==
    LET min_len == Min(Len(a), Len(b))
    IN /\ SubSeq(a, 1, min_len) = SubSeq(b, 1, min_len)
       /\ all_zero_from(a, min_len)

side_eq(a, b) ==
    LET min_len == Min(Len(a), Len(b))
    IN /\ SubSeq(a, 1, min_len) = SubSeq(b, 1, min_len)
       /\ all_zero_from(a, min_len)
       /\ all_zero_from(b, min_len)

eq(self, o) ==
    /\ side_eq(self.positive_values, o.positive_values)
    /\ side_eq(self.negative_values, o.negative_values)

\* add_side without the resize: zip stops at the shorter vector
add_side_zip_only(self_array, rhs_array) ==
    [k \in 1..Len(self_array) |->
        IF k <= Len(rhs_array) THEN self_array[k] + rhs_array[k] ELSE self_array[k]]

\* one turn of the loop of add_assign: resize to the longer vector, then add
\* the zipped values
add_side(self_array, rhs_array) ==
    LET grown == IF Len(rhs_array) > Len(self_array)
                 THEN resize(self_array, Len(rhs_array)) ELSE self_array
    IN [k \in 1..Len(grown) |->
           IF k <= Len(rhs_array) THEN grown[k] + rhs_array[k] ELSE grown[k]]

\* impl AddAssign<Tape> for Tape
add_assign(self, rhs) ==
    [positive_values |-> add_side(self.positive_values, rhs.positive_values),
     negative_values |-> add_side(self.negative_values, rhs.negative_values)]

\* impl Add<Tape> for Tape
add(self, rhs) == add_assign(self, rhs)

\* Tape::value. The source sums digit * base^index in f64, base being the
\* cached root of evaluate_rule_polynomial. The model keeps the sum exact: the
\* tape is the polynomial sum digit * x^(index + Shift), and x^n is rewritten
\* by the characteristic equation x^n = sum polynomial_coefficient(e) * x^e
\* until the degree is below n. Equal remainders are equal values at the root.
Shift == MaxNegLen + 2

\* evaluate_rule_polynomial: the coefficient of x^e in the sum, rule reversed
polynomial_coefficient(r, e) == Reverse(r)[e + 1]

tape_polynomial(t) ==
    [e \in 0..(Shift + Len(t.positive_values) - 1) |-> index(t, e - Shift)]

RECURSIVE reduce(_, _, _)
reduce(c, r, j) ==
    IF j < len(r)
    THEN [e \in 0..(len(r) - 1) |-> IF e \in DOMAIN c THEN c[e] ELSE 0]
    ELSE reduce([e \in DOMAIN c |->
                    IF e = j THEN 0
                    ELSE IF e >= j - len(r) /\ e < j
                         THEN c[e] + c[j] * polynomial_coefficient(r, e - (j - len(r)))
                         ELSE c[e]],
                r, j - 1)

value(t, r) ==
    LET c == tape_polynomial(t)
    IN reduce(c, r, Shift + Len(t.positive_values) - 1)

\* ------------------------------------------------- Tape::standardize_in_place
\* The scan as a record: status is "loop" while the for loop runs, "ok" at
\* return, and "panic_*" when an assert or unwrap aborts the call.
ScanState(status, self, cur, k, idxs, mn, carries) ==
    [status |-> status, self |-> self, cur |-> cur, k |-> k, idxs |-> idxs,
     min |-> mn, carries |-> carries]

\* lines 140-146: the asserts, range() and cur = max; index_iter() is taken once
standardize_begin(t, r) ==
    IF ~is_valid(t, r) THEN ScanState("panic_valid", t, 0, 0, <<>>, 0, 0)
    ELSE IF ~(len(r) > 0) THEN ScanState("panic_len", t, 0, 0, <<>>, 0, 0)
    ELSE ScanState("loop", t, range(t)[2], 1, index_iter(t), range(t)[1], 0)

\* the loop body that keeps cur when the digit at i is below the rule digit
standardize_body_no_reset(s, r) ==
    LET i == s.idxs[s.k]
        rule_index == s.cur - i - 1
    IN IF rule_index < 0 THEN [s EXCEPT !.status = "panic_index"]
       ELSE IF get_is_some(r, rule_index)
       THEN [s EXCEPT !.k = s.k + 1]
       ELSE IF ~(index(s.self, s.cur) < first(r))
            THEN [s EXCEPT !.status = "panic_carry"]
            ELSE LET res == apply_in_place(s.self, r, s.cur)
                 IN IF res.status # "ok"
                    THEN [s EXCEPT !.status = "panic_unwrap", !.self = res.tape]
                    ELSE [s EXCEPT !.self = res.tape, !.cur = i, !.k = s.k + 1,
                                   !.carries = s.carries + 1]

\* the loop body that stays on the same item of the iterator after a carry
standardize_body_revisit(s, r) ==
    LET i == s.idxs[s.k]
        rule_index == s.cur - i - 1
    IN IF rule_index < 0 THEN [s EXCEPT !.status = "panic_index"]
       ELSE IF get_is_some(r, rule_index)
       THEN IF index(s.self, i) < get(r, rule_index)
            THEN [s EXCEPT !.cur = i, !.k = s.k + 1]
            ELSE [s EXCEPT !.k = s.k + 1]
       ELSE IF ~(index(s.self, s.cur) < first(r))
            THEN [s EXCEPT !.status = "panic_carry"]
            ELSE LET res == apply_in_place(s.self, r, s.cur)
                 IN IF res.status # "ok"
                    THEN [s EXCEPT !.status = "panic_unwrap", !.self = res.tape]
                    ELSE [s EXCEPT !.self = res.tape, !.cur = i,
                                   !.carries = s.carries + 1]

\* the loop body that also restarts the window on a digit equal to the rule digit
standardize_body_le(s, r) ==
    LET i == s.idxs[s.k]
        rule_index == s.cur - i - 1
    IN IF rule_index < 0 THEN [s EXCEPT !.status = "panic_index"]
       ELSE IF get_is_some(r, rule_index)
       THEN IF index(s.self, i) <= get(r, rule_index)
            THEN [s EXCEPT !.cur = i, !.k = s.k + 1]
            ELSE [s EXCEPT !.k = s.k + 1]
       ELSE IF ~(index(s.self, s.cur) < first(r))
            THEN [s EXCEPT !.status = "panic_carry"]
            ELSE LET res == apply_in_place(s.self, r, s.cur)
                 IN IF res.status # "ok"
                    THEN [s EXCEPT !.status = "panic_unwrap", !.self = res.tape]
                    ELSE [s EXCEPT !.self = res.tape, !.cur = i, !.k = s.k + 1,
                                   !.carries = s.carries + 1]

\* lines 147-158: one iteration of the for loop, at i = idxs[k]
standardize_body(s, r) ==
    LET i == s.idxs[s.k]
        rule_index == s.cur - i - 1
    IN IF rule_index < 0 THEN [s EXCEPT !.status = "panic_index"]
       ELSE IF get_is_some(r, rule_index)
       THEN IF index(s.self, i) < get(r, rule_index)
            THEN [s EXCEPT !.cur = i, !.k = s.k + 1]
            ELSE [s EXCEPT !.k = s.k + 1]
       ELSE IF ~(index(s.self, s.cur) < first(r))
            THEN [s EXCEPT !.status = "panic_carry"]
            ELSE LET res == apply_in_place(s.self, r, s.cur)
                 IN IF res.status # "ok"
                    THEN [s EXCEPT !.status = "panic_unwrap", !.self = res.tape]
                    ELSE [s EXCEPT !.self = res.tape, !.cur = i, !.k = s.k + 1,
                                   !.carries = s.carries + 1]

\* lines 159-163: the boundary carry, the last assert and the return
standardize_end(s, r) ==
    LET carried ==
            IF s.cur - s.min - 1 = len(r)
            THEN LET res == apply_in_place(s.self, r, s.cur)
                 IN IF res.status # "ok"
                    THEN [s EXCEPT !.status = "panic_unwrap", !.self = res.tape]
                    ELSE [s EXCEPT !.self = res.tape, !.carries = s.carries + 1]
            ELSE s
    IN IF carried.status # "loop" THEN carried
       ELSE IF ~(carried.cur - carried.min < len(r))
            THEN [carried EXCEPT !.status = "panic_final"]
            ELSE [carried EXCEPT !.status = "ok"]

standardize_step(s, r) ==
    IF s.k <= Len(s.idxs) THEN standardize_body(s, r) ELSE standardize_end(s, r)

RECURSIVE standardize_run(_, _)
standardize_run(s, r) ==
    IF s.status = "loop" THEN standardize_run(standardize_step(s, r), r) ELSE s

standardize_in_place(t, r) == standardize_run(standardize_begin(t, r), r)

\* Tape::standardize: standardize_in_place on a clone
standardize(t, r) == standardize_in_place(t, r)

\* ----------------------------------------------------------- state machine
NoResult == [op |-> "none", status |-> "none", tape |-> zero,
             application_index |-> 0, rule_index |-> 0, rule_value |-> 0, tape_value |-> 0]

Res(op, r) == [op |-> op, status |-> r.status, tape |-> r.tape,
               application_index |-> r.application_index, rule_index |-> r.rule_index,
               rule_value |-> r.rule_value, tape_value |-> r.tape_value]

Flag(op, b) == [NoResult EXCEPT !.op = op, !.status = b]

NoScan == ScanState("idle", zero, 0, 0, <<>>, 0, 0)

\* the arguments of the last from_arrays call
NoArgs == [positives |-> <<>>, negatives |-> <<>>]

\* -- Rule construction
InitRule ==
    /\ input = <<>>
    /\ rule = None
    /\ tape = zero
    /\ other = zero
    /\ pos = 0
    /\ result = NoResult
    /\ scan = NoScan
    /\ args = NoArgs

FromArray(values) ==
    /\ input' = values
    /\ rule' = from_array(values)
    /\ UNCHANGED <<args, tape, other, pos, result, scan>>

NextRule == \E values \in RuleInputs : FromArray(values)

SpecRule == InitRule /\ [][NextRule]_vars

\* -- a constructed rule and a tape: apply, is_valid, is_standard
InitTape ==
    /\ input \in TapeRuleInputs
    /\ rule = from_array(input)
    /\ rule.some
    /\ tape \in Tapes
    /\ other = zero
    /\ pos = 0
    /\ result = NoResult
    /\ scan = NoScan
    /\ args = NoArgs

ApplyPositions == (0 - (MaxNegLen + 1))..(MaxPosLen + 1)

\* tape.apply(&rule, p): the tape itself is borrowed, the result is a new value
Apply(p) ==
    /\ pos' = p
    /\ result' = Res("apply", apply(tape, rule.values, p))
    /\ UNCHANGED <<args, input, rule, tape, other, scan>>

IsStandard ==
    /\ pos' = 0
    /\ result' = Flag("is_standard", is_standard_outcome(tape, rule.values))
    /\ UNCHANGED <<args, input, rule, tape, other, scan>>

NextApply ==
    \/ \E p \in ApplyPositions : Apply(p)
    \/ IsStandard

SpecApply == InitTape /\ [][NextApply]_vars

\* -- standardize, one step of the scan at a time
StdBegin ==
    /\ scan.status = "idle"
    /\ scan' = standardize_begin(tape, rule.values)
    /\ UNCHANGED <<args, input, rule, tape, other, pos, result>>

StdLoop ==
    /\ scan.status = "loop"
    /\ scan.k <= Len(scan.idxs)
    /\ scan' = standardize_body(scan, rule.values)
    /\ UNCHANGED <<args, input, rule, tape, other, pos, result>>

StdEnd ==
    /\ scan.status = "loop"
    /\ scan.k > Len(scan.idxs)
    /\ scan' = standardize_end(scan, rule.values)
    /\ UNCHANGED <<args, input, rule, tape, other, pos, result>>

NextStd == StdBegin \/ StdLoop \/ StdEnd

SpecStd == InitTape /\ [][NextStd]_vars

\* a call of standardize that has started keeps running: the loop is sequential
\* code that nothing suspends
SpecStdFair == SpecStd /\ WF_vars(NextStd)

\* -- standardize on tapes of a longer span, digits on the positive side only
ScanTapes ==
    {[positive_values |-> p, negative_values |-> <<>>] :
        p \in SeqsUpTo(Digits, MaxPosLen + 2)}

InitScan ==
    /\ input \in TapeRuleInputs
    /\ rule = from_array(input)
    /\ rule.some
    /\ tape \in ScanTapes
    /\ other = zero
    /\ pos = 0
    /\ result = NoResult
    /\ scan = NoScan
    /\ args = NoArgs

SpecScan == InitScan /\ [][NextStd]_vars

\* the input without its trailing zeros
StripTrailingZeros(values) ==
    LET nonzero == {k \in 1..Len(values) : values[k] # 0}
        last == IF nonzero = {} THEN 0 ELSE CHOOSE k \in nonzero : \A m \in nonzero : m <= k
    IN SubSeq(values, 1, last)

\* -- a rule and two tapes with the same digits and different zero padding
\* every tape of the bounds that holds the digits of t: each vector of t without
\* its materialized zeros at the far end, grown again with zeros to each length
Pads(t) ==
    LET p == StripTrailingZeros(t.positive_values)
        n == StripTrailingZeros(t.negative_values)
    IN {[positive_values |-> resize(p, i), negative_values |-> resize(n, j)] :
            i \in Len(p)..MaxPosLen, j \in Len(n)..MaxNegLen}

InitPair ==
    /\ input \in TapeRuleInputs
    /\ rule = from_array(input)
    /\ rule.some
    /\ tape \in Tapes
    /\ other \in Pads(tape)
    /\ pos = 0
    /\ result = NoResult
    /\ scan = NoScan
    /\ args = NoArgs

IsValid ==
    /\ pos' = 0
    /\ result' = Flag("is_valid", IF is_valid(tape, rule.values) THEN "true" ELSE "false")
    /\ UNCHANGED <<args, input, rule, tape, other, scan>>

NextPair ==
    \/ IsValid
    \/ IsStandard

SpecPair == InitPair /\ [][NextPair]_vars

\* -- two tapes: equality
InitEq ==
    /\ input = <<>>
    /\ rule = None
    /\ tape \in Tapes
    /\ other \in Tapes
    /\ pos = 0
    /\ result = NoResult
    /\ scan = NoScan
    /\ args = NoArgs

Eq ==
    /\ result' = Flag("eq", IF eq(tape, other) THEN "true" ELSE "false")
    /\ UNCHANGED <<args, input, rule, tape, other, pos, scan>>

NextEq == Eq

SpecEq == InitEq /\ [][NextEq]_vars

\* -- construction of a tape from two arrays, and reads of the result
InitArrays ==
    /\ input = <<>>
    /\ rule = None
    /\ tape = zero
    /\ other = zero
    /\ pos = 0
    /\ result = NoResult
    /\ scan = NoScan
    /\ args = NoArgs

FromArrays(positives, negatives) ==
    /\ args' = [positives |-> positives, negatives |-> negatives]
    /\ tape' = from_arrays(positives, negatives)
    /\ result' = NoResult
    /\ UNCHANGED <<input, rule, other, pos, scan>>

ReadPositions == (0 - (MaxNegLen + 1))..MaxPosLen

\* tape[p] through impl Index: the digit is kept in result.tape_value
Read(p) ==
    /\ pos' = p
    /\ result' = [NoResult EXCEPT !.op = "read", !.tape_value = index(tape, p)]
    /\ UNCHANGED <<args, input, rule, tape, other, scan>>

NextArrays ==
    \/ \E positives \in SeqsUpTo(Digits, MaxPosLen), negatives \in SeqsUpTo(Digits, MaxNegLen) :
          FromArrays(positives, negatives)
    \/ \E p \in ReadPositions : Read(p)

SpecArrays == InitArrays /\ [][NextArrays]_vars

\* -- two tapes: addition
Add ==
    /\ result' = [NoResult EXCEPT !.op = "add", !.tape = add(tape, other)]
    /\ UNCHANGED <<args, input, rule, tape, other, pos, scan>>

NextAdd == Add

SpecAdd == InitEq /\ [][NextAdd]_vars

\* -- reads and writes through Index and IndexMut
InitIndex ==
    /\ input = <<>>
    /\ rule = None
    /\ tape \in Tapes
    /\ other = zero
    /\ pos = 0
    /\ result = NoResult
    /\ scan = NoScan
    /\ args = NoArgs

WritePositions == (0 - MaxNegLen)..MaxPosLen

\* tape[p] = v through impl IndexMut: the value is kept in result.tape_value
Write(p, v) ==
    /\ pos' = p
    /\ tape' = index_mut(tape, p, v)
    /\ result' = [NoResult EXCEPT !.op = "write", !.tape_value = v]
    /\ UNCHANGED <<args, input, rule, other, scan>>

NextIndex ==
    \/ \E p \in ReadPositions : Read(p)
    \/ \E p \in WritePositions, v \in Digits : Write(p, v)

SpecIndex == InitIndex /\ [][NextIndex]_vars

\* ------------------------------------------------------------------ claims
ScanPanics == {"panic_len", "panic_index", "panic_carry", "panic_unwrap", "panic_final"}

\* C1: for a tape valid under the rule, the tape standardize returns is
\* standard: is_standard answers true on it.
C1_StandardizeIsStandard ==
    scan.status = "ok" => is_standard(scan.self, rule.values)

\* C2: standardize is idempotent: standardizing the tape standardize returned
\* completes, and its result equals that tape under Tape equality.
C2_StandardizeIdempotent ==
    scan.status = "ok" =>
        LET again == standardize(scan.self, rule.values)
        IN again.status = "ok" /\ eq(again.self, scan.self)

\* C3: validity is the only precondition of standardize: on a valid tape no
\* assert and no unwrap of standardize fails.
C3_StandardizeNeverAborts ==
    is_valid(tape, rule.values) => scan.status \notin ScanPanics

\* C9: from_array returns None exactly when the input has an adjacent pair
\* a < b or has no non-zero element; otherwise the rule holds the input without
\* its trailing zeros: non-empty, non-increasing, and without a zero digit.
C9_FromArray ==
    LET rejected == \/ \E k \in 1..(Len(input) - 1) : input[k] < input[k + 1]
                    \/ \A k \in 1..Len(input) : input[k] = 0
        r == rule.values
    IN /\ rule.some = ~rejected
       /\ rule.some =>
            /\ r = StripTrailingZeros(input)
            /\ Len(r) > 0
            /\ \A k \in 1..(Len(r) - 1) : r[k] >= r[k + 1]
            /\ \A k \in 1..Len(r) : r[k] # 0

C9_Witness == rule.some /\ Len(rule.values) >= 2 /\ Len(rule.values) < Len(input)

WidePositions == (0 - (MaxNegLen + MaxRuleLen + 2))..(MaxPosLen + MaxRuleLen + 2)

\* the digits at p-1, ..., p-len(r) dominate r[0], ..., r[len(r)-1]
Dominates(t, r, p) == \A i \in 0..(Len(r) - 1) : index(t, p - (i + 1)) >= r[i + 1]

\* C4: the value of the tape is the same after a successful apply (in exact
\* arithmetic, at the root of the rule's characteristic polynomial).
C4_ApplyKeepsValue ==
    (result.op = "apply" /\ result.status = "ok") =>
        value(result.tape, rule.values) = value(tape, rule.values)

C4_Witness ==
    /\ result.op = "apply" /\ result.status = "ok"
    /\ Len(rule.values) >= 2
    /\ pos = 1
    /\ result.tape # tape

\* C5: the value of the tape is the same at every step of standardize and in
\* the tape it returns (in exact arithmetic).
C5_StandardizeKeepsValue ==
    scan.status \in {"loop", "ok"} =>
        value(scan.self, rule.values) = value(tape, rule.values)

C5_Witness ==
    /\ scan.status = "ok"
    /\ scan.carries >= 1
    /\ Len(rule.values) >= 2
    /\ scan.self # tape

\* C6: apply at p succeeds exactly when the digits below p dominate the rule;
\* the result then has digit p one higher, digit p-(i+1) lower by rule[i], and
\* every other digit as before.
C6_ApplyEffect ==
    result.op = "apply" =>
        LET r == rule.values
            delta(q) == (IF q = pos THEN 1 ELSE 0)
                        - (IF pos - q >= 1 /\ pos - q <= Len(r) THEN r[pos - q] ELSE 0)
        IN /\ result.status \in {"ok", "err"}
           /\ (result.status = "ok") = Dominates(tape, r, pos)
           /\ result.status = "ok" =>
                \A q \in WidePositions : index(result.tape, q) = index(tape, q) + delta(q)

C6_Witness ==
    /\ result.op = "apply" /\ result.status = "ok"
    /\ Len(rule.values) >= 2
    /\ pos >= Len(tape.positive_values)

\* C7: when apply at p fails the tape is as before, and the error holds p, the
\* smallest rule index i whose digit at p-(i+1) is below rule[i], rule[i], and
\* that digit of the original tape.
C7_ErrorFields ==
    (result.op = "apply" /\ result.status = "err") =>
        LET r == rule.values
            failing == {i \in 0..(Len(r) - 1) : index(tape, pos - (i + 1)) < r[i + 1]}
        IN /\ failing # {}
           /\ result.application_index = pos
           /\ result.rule_index \in failing
           /\ \A i \in failing : result.rule_index <= i
           /\ result.rule_value = r[result.rule_index + 1]
           /\ result.tape_value = index(tape, pos - (result.rule_index + 1))
           /\ result.tape_value < result.rule_value

\* C7 (whole claim): the error fields above hold in every state, and a failing
\* apply leaves the tape it was called on as it was.
C7_ApplyError ==
    /\ []C7_ErrorFields
    /\ [][(result'.op = "apply" /\ result'.status = "err") => tape' = tape]_vars

C7_Witness ==
    /\ result.op = "apply" /\ result.status = "err"
    /\ result.rule_index >= 1
    /\ result.tape_value >= 1

\* C8: is_standard is true exactly when every digit is at most rule.first()
\* and at no position do the digits below it dominate the rule.
C8_IsStandard ==
    result.op = "is_standard" =>
        LET r == rule.values
        IN /\ result.status \in {"true", "false"}
           /\ (result.status = "true") =
                (/\ \A q \in WidePositions : index(tape, q) <= r[1]
                 /\ \A p \in WidePositions : ~Dominates(tape, r, p))

\* the only dominating window is the one that ends at the tape's minimum position
C8_Witness ==
    /\ result.op = "is_standard" /\ result.status = "false"
    /\ is_valid(tape, rule.values)
    /\ Len(rule.values) >= 2
    /\ Dominates(tape, rule.values, range(tape)[1] + Len(rule.values))
    /\ \A p \in WidePositions :
          Dominates(tape, rule.values, p) => p = range(tape)[1] + Len(rule.values)

\* C10: two tapes are equal exactly when they hold the same digit at every
\* position, whatever their materialized lengths; equality is reflexive and
\* symmetric.
C10_TapeEq ==
    result.op = "eq" =>
        /\ (result.status = "true") =
              (\A q \in WidePositions : index(tape, q) = index(other, q))
        /\ eq(tape, tape) /\ eq(other, other)
        /\ eq(other, tape) = (result.status = "true")

C10_Witness ==
    /\ result.op = "eq" /\ result.status = "true"
    /\ Len(tape.positive_values) < Len(other.positive_values)
    /\ Len(tape.negative_values) > Len(other.negative_values)
    /\ tape.positive_values # <<>>

\* C11 as stated: positives[k] is read at position k (position 0 holds the
\* first element) and negatives[k] at position -1-k.
C11_FirstAtZero ==
    result.op = "read" =>
        /\ (pos >= 0 /\ pos < Len(args.positives)) => result.tape_value = args.positives[pos + 1]
        /\ (pos < 0 /\ 0 - pos <= Len(args.negatives)) => result.tape_value = args.negatives[0 - pos]

\* C11 amended: the positives are most significant first: positives[k] is read
\* at position len - 1 - k, so position 0 holds the last element; negatives[k]
\* is read at position -1-k; every other position reads 0 and the range is
\* (-len(negatives), len(positives)).
C11_FromArrays ==
    /\ range(tape) = <<0 - Len(args.negatives), Len(args.positives)>>
    /\ result.op = "read" =>
        /\ (pos >= 0 /\ pos < Len(args.positives)) =>
              result.tape_value = args.positives[Len(args.positives) - pos]
        /\ (pos < 0 /\ 0 - pos <= Len(args.negatives)) => result.tape_value = args.negatives[0 - pos]
        /\ (pos >= Len(args.positives) \/ 0 - pos > Len(args.negatives)) => result.tape_value = 0

C11_Witness ==
    /\ result.op = "read" /\ pos = 0
    /\ Len(args.positives) >= 2
    /\ args.positives[1] # args.positives[Len(args.positives)]
    /\ args.negatives # <<>>

\* C12: the sum holds at every position the sum of the two digits, its range
\* is the union of the two ranges, and a + b equals b + a.
C12_Add ==
    result.op = "add" =>
        /\ \A q \in ReadPositions : index(result.tape, q) = index(tape, q) + index(other, q)
        /\ range(result.tape)[1] = Min(range(tape)[1], range(other)[1])
        /\ range(result.tape)[2] = 0 - Min(0 - range(tape)[2], 0 - range(other)[2])
        /\ eq(add(other, tape), result.tape)

C12_Witness ==
    /\ result.op = "add"
    /\ Len(tape.positive_values) < Len(other.positive_values)
    /\ Len(tape.negative_values) > Len(other.negative_values)
    /\ \E q \in ReadPositions : index(tape, q) > 0 /\ index(other, q) > 0

InWindow(t, p) == p >= range(t)[1] /\ p < range(t)[2]

\* a read outside the window gives 0 and leaves the tape as it is
C13_ReadOutside ==
    (result'.op = "read" /\ ~InWindow(tape, pos')) =>
        (result'.tape_value = 0 /\ tape' = tape)

\* a write outside the window grows only the side of the position, up to the
\* position, fills the gap with zeros and keeps every other digit
C13_WriteOutside ==
    (result'.op = "write" /\ ~InWindow(tape, pos')) =>
        /\ pos' >= 0 =>
              /\ Len(tape'.positive_values) = pos' + 1
              /\ tape'.negative_values = tape.negative_values
        /\ pos' < 0 =>
              /\ Len(tape'.negative_values) = 0 - pos'
              /\ tape'.positive_values = tape.positive_values
        /\ \A q \in WidePositions :
              index(tape', q) = IF q = pos' THEN result'.tape_value ELSE index(tape, q)

\* the read that follows a write at the same position gives the written value
C13_ReadAfterWrite ==
    (result.op = "write" /\ result'.op = "read" /\ pos' = pos) =>
        result'.tape_value = result.tape_value

\* C13: reading outside the materialized window returns 0 and leaves the tape
\* unchanged; writing outside it extends only that side up to the position,
\* zero-fills the gap, keeps every other digit and the other side's length, and
\* a following read at the position returns the written value.
C13_IndexFrame ==
    /\ [][C13_ReadOutside]_vars
    /\ [][C13_WriteOutside]_vars
    /\ [][C13_ReadAfterWrite]_vars

\* a nonzero digit was written beyond every initial window, the positive side
\* grew to reach it and the place below it holds a zero
C13_Witness ==
    /\ result.op = "write" /\ result.tape_value > 0
    /\ pos = MaxPosLen
    /\ Len(tape.positive_values) = MaxPosLen + 1
    /\ index(tape, pos) = result.tape_value
    /\ index(tape, pos - 1) = 0

\* the for loop is over and cur is exactly len(rule) above the minimum
AtBoundary ==
    /\ scan.status = "loop" /\ scan.k > Len(scan.idxs)
    /\ scan.cur - scan.min = len(rule.values)
    /\ Dominates(scan.self, rule.values, scan.cur)

C15_FinalApply ==
    AtBoundary =>
        /\ scan'.status = "ok"
        /\ scan'.carries = scan.carries + 1
        /\ scan'.self = apply_in_place(scan.self, rule.values, scan.cur).tape

\* C15: when the scan ends with cur - min = rule.len() and every digit of that
\* window dominating the rule, standardize performs one final apply(rule, cur)
\* and then returns.
C15_BoundaryCarry == [][C15_FinalApply]_vars

\* the step of the scan is a carry: the loop body or the boundary test calls apply
CarryStep ==
    /\ scan.status = "loop"
    /\ \/ scan'.carries = scan.carries + 1
       \/ scan'.status = "panic_unwrap"

\* C16: every apply that standardize calls on a valid tape succeeds: at each
\* carry at cur the digits at cur-1, ..., cur-rule.len() dominate the rule, and
\* the unwrap of the result never fails.
C16_CarriesSucceed ==
    /\ [](scan.status # "panic_unwrap")
    /\ [][CarryStep => Dominates(scan.self, rule.values, scan.cur)]_vars

\* two carries were made in one scan and the call returned
C16_Witness ==
    /\ scan.status = "ok"
    /\ scan.carries >= 2

\* C17: starting from a valid tape, the assert before each carry holds (the
\* digit at cur is below rule.first()), so the tape is valid after every carry
\* and at return.
C17_ScanKeepsValid ==
    is_valid(tape, rule.values) =>
        /\ scan.status # "panic_carry"
        /\ scan.status \in {"loop", "ok"} => is_valid(scan.self, rule.values)

\* the scan walks the initial range of the tape from max-1 down to min, is
\* never ahead of one carry per visited position, and a returned call has
\* visited every position
C18_Visits ==
    scan.status \in ({"loop", "ok"} \cup ScanPanics) =>
        /\ Len(scan.idxs) = range(tape)[2] - range(tape)[1]
        /\ \A j \in 1..Len(scan.idxs) : scan.idxs[j] = range(tape)[2] - j
        /\ scan.k \in 1..(Len(scan.idxs) + 1)
        /\ scan.carries <= scan.k - 1
        /\ scan.carries <= Len(scan.idxs)
        /\ scan.status = "ok" => scan.k = Len(scan.idxs) + 1

\* a step of the scan either ends the call or moves to the next position
C18_Advance ==
    scan.status = "loop" =>
        /\ scan'.idxs = scan.idxs
        /\ scan'.carries \in {scan.carries, scan.carries + 1}
        /\ \/ scan'.status # "loop"
           \/ scan'.status = "loop" /\ scan'.k = scan.k + 1

\* C18: standardize always halts: it visits each position of the initially
\* materialized range once, from max-1 down to min, makes at most one carry per
\* visited position, never goes back and never scans positions its own carries
\* materialized, so the number of carries is bounded by the initial span.
C18_Halts ==
    /\ []C18_Visits
    /\ [][C18_Advance]_vars
    /\ <>(scan.status \notin {"idle", "loop"})

\* a returned call that walked a span of three positions and carried on the way
C18_Witness ==
    /\ scan.status = "ok"
    /\ Len(scan.idxs) = MaxPosLen + MaxNegLen
    /\ scan.k = Len(scan.idxs) + 1
    /\ scan.carries >= 1
    /\ Len(scan.self.positive_values) > Len(tape.positive_values)

\* C19: a standard tape is a fixed point of standardize: the call makes no
\* carry and returns a tape equal to it; and for a valid tape that is not
\* standard, standardize never returns the tape unchanged.
C19_FixedPoints ==
    /\ (is_standard(tape, rule.values) /\ scan.status \notin {"idle", "loop"}) =>
          /\ scan.status = "ok"
          /\ scan.carries = 0
          /\ eq(scan.self, tape)
    /\ (is_standard(tape, rule.values) /\ scan.status = "loop") =>
          scan.carries = 0 /\ scan.self = tape
    /\ (is_valid(tape, rule.values) /\ ~is_standard(tape, rule.values)
            /\ scan.status = "ok") =>
          ~eq(scan.self, tape)

\* a standard tape with digits on both sides came back from standardize
C19_Witness ==
    /\ scan.status = "ok"
    /\ is_standard(tape, rule.values)
    /\ Len(rule.values) >= 2
    /\ \E k \in 1..Len(tape.positive_values) : tape.positive_values[k] > 0
    /\ \E k \in 1..Len(tape.negative_values) : tape.negative_values[k] > 0

\* a valid tape that is not standard came back from standardize, changed
C19_WitnessChanged ==
    /\ scan.status = "ok"
    /\ is_valid(tape, rule.values)
    /\ ~is_standard(tape, rule.values)

\* C20: is_valid and is_standard respect Tape equality: on two tapes that
\* compare equal, differing only in materialized zeros on either side, is_valid
\* gives the same answer and is_standard gives the same answer.
C20_RespectEq ==
    eq(tape, other) =>
        /\ result.op = "is_valid" =>
              result.status = (IF is_valid(other, rule.values) THEN "true" ELSE "false")
        /\ result.op = "is_standard" =>
              result.status = is_standard_outcome(other, rule.values)
        /\ is_valid(tape, rule.values) = is_valid(other, rule.values)
        /\ is_standard(tape, rule.values) = is_standard(other, rule.values)

\* the pads of a tape are exactly the tapes of the bounds equal to it
PadsAreEqualTapes ==
    /\ eq(tape, other)
    /\ \A o \in Tapes : eq(tape, o) => o \in Pads(tape)

\* is_standard answered true on a tape whose equal partner is shorter on the
\* positive side and longer on the negative side
C20_Witness ==
    /\ result.op = "is_standard" /\ result.status = "true"
    /\ \E k \in 1..Len(tape.positive_values) : tape.positive_values[k] > 0
    /\ Len(tape.positive_values) > Len(other.positive_values)
    /\ Len(tape.negative_values) < Len(other.negative_values)

====
